---- MODULE Spec2Model ----
(***************************************************************************)
(* State-machine model of the session and event-capture core of the       *)
(* Playwright MCP server (src/src/playwright_server).                      *)
(*                                                                         *)
(* The asyncio event loop is cooperative: a handler or a callback runs     *)
(* atomically from one await that really suspends to the next.  Every      *)
(* action below is one such run.  Awaits of coroutines that never suspend  *)
(* (the _setup_*_listener methods, SessionInitializer.initialize_session)  *)
(* are part of the step that calls them.                                   *)
(***************************************************************************)
EXTENDS Integers, Sequences, FiniteSets, TLC

\* ------------------------------------------------------------------ bounds
MaxSessions == 2
MaxPages == 3
MaxMsgs == 2
MaxRequests == 2
MaxEvents == 2
MaxLog == 2
MaxUrl == 3

\* ----------------------------------------------------------------- helpers
\* Python's None and an optional value: None is <<>>, a value v is <<v>>.
None == <<>>
Some(v) == <<v>>
IsNone(o) == o = <<>>
Val(o) == o[1]

Last(s) == s[Len(s)]
Range(s) == {s[i] : i \in 1..Len(s)}
Min(a, b) == IF a < b THEN a ELSE b
Max(a, b) == IF a > b THEN a ELSE b

\* The two "no session" texts of the code.
NoSessionText == "No active session. Please create a new session first."
NoSessionError ==
    "No active browser session(self._sessions={}). Please create a new session first."

VARIABLES
    sessions,        \* BaseToolHandler._sessions: the dict, in insertion order
    pages,           \* the driver's Page objects, by page id
    console_logs,    \* ConsoleLogHandler._console_logs: session id -> list
    network_events,  \* NetworkHandler._network_events: session id -> list
    tasks,           \* the tool calls in progress (one coroutine per task)
    console_calls,   \* handle_console coroutines: suspended, or ended by an exception
    msg_count,       \* console messages the driver has delivered so far
    requests,        \* the driver's Request objects, by request id
    request_calls,   \* handle_request coroutines in progress
    response_calls   \* handle_response coroutines in progress

vars == <<sessions, pages, console_logs, network_events, tasks, console_calls,
          msg_count, requests, request_calls, response_calls>>

\* Tool calls run as coroutines of one event loop; the model runs two of
\* them side by side, which covers every pairwise interleaving of two calls.
Tasks == {1, 2}

\* ------------------------------------------------------- the session dict
\* list(self._sessions.keys())
Keys(d) == [i \in 1..Len(d) |-> d[i].id]

HasKey(d, k) == \E i \in 1..Len(d) : d[i].id = k

\* d[k]
Get(d, k) == (CHOOSE i \in 1..Len(d) : d[i].id = k)

\* self._sessions[session_id] = {...}: a new key goes to the end of the dict,
\* an existing key keeps its place.
DictSetFront(d, k, v) ==
    IF HasKey(d, k)
    THEN [i \in 1..Len(d) |-> IF d[i].id = k THEN [id |-> k] @@ v ELSE d[i]]
    ELSE <<[id |-> k] @@ v>> \o d

DictSet(d, k, v) ==
    IF HasKey(d, k)
    THEN [i \in 1..Len(d) |-> IF d[i].id = k THEN [id |-> k] @@ v ELSE d[i]]
    ELSE Append(d, [id |-> k] @@ v)

\* list(self._sessions.keys())[-1]
ActiveKeyFirst(d) == Keys(d)[1]

ActiveKey(d) == Keys(d)[Len(d)]

\* self._sessions[session_id]["page"]
PageOf(d, k) == d[Get(d, k)].page

\* self._sessions[session_id]["page"] = new_page
SetPageOther(d, k, p) == d

\* the assignment made to the session that is active when it is made
SetPageActive(d, k, p) == [d EXCEPT ![Len(d)].page = p]

SetPage(d, k, p) == [d EXCEPT ![Get(d, k)].page = p]

\* str(uuid.uuid4()): a token no earlier session has.  The model uses the
\* ordinal of the creation, which also records the order of creation.
NewSessionId == Len(sessions) + 1

\* ------------------------------------------------------------- the pages
\* A Page object of the driver: the browser context it belongs to, whether
\* its load has settled, the two marker attributes the handlers set on it,
\* and its event subscriptions (each subscription is a closure; the model
\* keeps the session id it holds).
NewPage(ctx) ==
    [context |-> ctx,
     loaded |-> FALSE,
     console_listener_added |-> FALSE,
     network_listener_added |-> FALSE,
     console_subs |-> <<>>,
     request_subs |-> <<>>,
     response_subs |-> <<>>]

\* browser.new_page(): the blank page of a new browser, loaded when returned
BlankPage(ctx) == [NewPage(ctx) EXCEPT !.loaded = TRUE]

\* if session_id not in self._console_logs: self._console_logs[session_id] = []
EnsureBucketReset(logs, sid) == (sid :> <<>>) @@ logs

EnsureBucket(logs, sid) ==
    IF sid \in DOMAIN logs THEN logs ELSE logs @@ (sid :> <<>>)

\* ConsoleLogHandler._setup_console_log_listener, the page's side
SetupConsoleListenerUnguarded(pg, sid) ==
    [pg EXCEPT !.console_subs = Append(@, sid),
               !.console_listener_added = TRUE]

SetupConsoleListener(pg, sid) ==
    IF pg.console_listener_added
    THEN pg
    ELSE [pg EXCEPT !.console_subs = Append(@, sid),
                    !.console_listener_added = TRUE]

\* NetworkHandler._setup_network_listener, the page's side
SetupNetworkListenerUnguarded(pg, sid) ==
    [pg EXCEPT !.request_subs = Append(@, sid),
               !.response_subs = Append(@, sid),
               !.network_listener_added = TRUE]

SetupNetworkListener(pg, sid) ==
    IF pg.network_listener_added
    THEN pg
    ELSE [pg EXCEPT !.request_subs = Append(@, sid),
                    !.response_subs = Append(@, sid),
                    !.network_listener_added = TRUE]

\* SessionInitializer.initialize_session: both handlers are in tool_handlers
InitializeSessionNone(pg, sid) == pg

InitializeSession(pg, sid) ==
    SetupNetworkListener(SetupConsoleListener(pg, sid), sid)

\* --------------------------------------------------------- the tool calls
NoArgs ==
    [url |-> None, type |-> None, method |-> None, status_min |-> None,
     status_max |-> None, resource_type |-> None, limit |-> None]

\* Python truthiness of an optional string argument ("if url:"); a URL is a
\* sequence of tokens, any other string a TLA+ string
TruthyUrl(o) == ~IsNone(o) /\ Val(o) # <<>>
TruthyStr(o) == ~IsNone(o) /\ Val(o) # ""

TextResult(s) == [kind |-> "text", text |-> s, lines |-> <<>>]
ImageResult == [kind |-> "image", text |-> "", lines |-> <<>>]
Raised(what) == [kind |-> "exception", text |-> what, lines |-> <<>>]
NoResult == [kind |-> "none", text |-> "", lines |-> <<>>]

\* "if not self._sessions: return [types.TextContent(...)]"
NoSessionReply == TextResult(NoSessionText)

\* _get_active_session raises ValueError, "except ValueError as e" returns
\* its text
NoSessionRaised == Raised("ValueError")

NoSessionErrorReply == TextResult(NoSessionError)

\* "http://" and "https://" as sequences of tokens; a URL is a sequence of
\* tokens, so that url.startswith(...) is a test of a prefix
HttpPrefix == <<"http", "://">>
HttpsPrefix == <<"http", "s", "://">>

\* url.startswith(prefix)
StartsWith(url, prefix) ==
    Len(url) >= Len(prefix) /\ SubSeq(url, 1, Len(prefix)) = prefix

\* if not url.startswith("http://") and not url.startswith("https://"):
\*     url = "https://" + url
NormalizeAlways(url) == HttpsPrefix \o url

Normalize(url) ==
    IF ~StartsWith(url, HttpPrefix) /\ ~StartsWith(url, HttpsPrefix)
    THEN HttpsPrefix \o url
    ELSE url

\* url: the local variable of new_session and navigate that goes to page.goto
IdleTask ==
    [pc |-> "idle", tool |-> "", args |-> NoArgs, created |-> 0, sid |-> 0,
     page |-> 0, fut |-> "none", new_page |-> 0, result |-> NoResult,
     url |-> <<>>]

ClickTools == {"playwright_click", "playwright_click_text"}
StatelessTools ==
    {"playwright_screenshot", "playwright_fill", "playwright_evaluate",
     "playwright_get_text_content", "playwright_get_html_content"}

\* a call ends: its locals are gone, its result is on its way to the caller
Finish(t, res) ==
    tasks' = [tasks EXCEPT ![t] =
        [IdleTask EXCEPT !.pc = "done", !.tool = tasks[t].tool,
                         !.args = tasks[t].args, !.result = res]]

\* Sessions a call in its launch phase is about to register (bounds the model)
Launching == Cardinality({t \in Tasks : tasks[t].pc = "launch"})

\* The state change of NewSessionToolHandler.handle between new_page()
\* returning and its next suspension: open page, register, initialize.
RegisterSession ==
    LET sid == NewSessionId
        p == Len(pages) + 1
    IN  /\ sessions' = DictSet(sessions, sid, [browser |-> sid, page |-> p])
        /\ pages' = Append(pages, InitializeSession(BlankPage(sid), sid))
        /\ console_logs' = EnsureBucket(console_logs, sid)
        /\ network_events' = EnsureBucket(network_events, sid)

\* playwright_new_session: up to the launch of the browser
NewSessionStart(t, args) ==
    /\ tasks[t].pc = "idle"
    /\ Len(sessions) + Launching < MaxSessions
    /\ Len(pages) + Launching < MaxPages
    /\ tasks' = [tasks EXCEPT ![t] =
           [IdleTask EXCEPT !.pc = "launch", !.tool = "playwright_new_session",
                            !.args = args]]
    /\ UNCHANGED <<sessions, pages, console_logs, network_events, console_calls,
                   msg_count, requests, request_calls, response_calls>>

\* playwright_new_session: from the page being open to goto or the return
NewSessionRegister(t, ok) ==
    /\ tasks[t].pc = "launch"
    /\ tasks[t].tool = "playwright_new_session"
    /\ IF ok
       THEN /\ RegisterSession
            /\ IF TruthyUrl(tasks[t].args.url)
               THEN tasks' = [tasks EXCEPT ![t].pc = "goto",
                                           ![t].created = NewSessionId,
                                           ![t].sid = NewSessionId,
                                           ![t].page = Len(pages) + 1,
                                           ![t].url = Normalize(Val(tasks[t].args.url))]
               ELSE Finish(t, TextResult("created"))
       ELSE /\ Finish(t, Raised("launch"))
            /\ UNCHANGED <<sessions, pages, console_logs, network_events>>
    /\ UNCHANGED <<console_calls, msg_count, requests, request_calls,
                   response_calls>>

\* playwright_navigate: the test of the mapping, then launch or goto
NavigateStart(t, args) ==
    /\ tasks[t].pc = "idle"
    /\ ~IsNone(args.url)
    /\ IF Len(sessions) = 0
       THEN /\ Launching < MaxSessions
            /\ Len(pages) + Launching < MaxPages
            /\ tasks' = [tasks EXCEPT ![t] =
                   [IdleTask EXCEPT !.pc = "launch", !.tool = "playwright_navigate",
                                    !.args = args]]
       ELSE tasks' = [tasks EXCEPT ![t] =
                [IdleTask EXCEPT !.pc = "goto", !.tool = "playwright_navigate",
                                 !.args = args,
                                 !.sid = ActiveKey(sessions),
                                 !.page = PageOf(sessions, ActiveKey(sessions)),
                                 !.url = Normalize(Val(args.url))]]
    /\ UNCHANGED <<sessions, pages, console_logs, network_events, console_calls,
                   msg_count, requests, request_calls, response_calls>>

\* playwright_navigate: the nested NewSessionToolHandler().handle("", {})
\* returns, the handler picks the last session and starts goto
NavigateRegister(t, ok) ==
    /\ tasks[t].pc = "launch"
    /\ tasks[t].tool = "playwright_navigate"
    /\ IF ok
       THEN /\ RegisterSession
            /\ tasks' = [tasks EXCEPT ![t].pc = "goto",
                                      ![t].created = NewSessionId,
                                      ![t].sid = ActiveKey(sessions'),
                                      ![t].page = PageOf(sessions', ActiveKey(sessions')),
                                      ![t].url = Normalize(Val(tasks[t].args.url))]
       ELSE /\ Finish(t, Raised("launch"))
            /\ UNCHANGED <<sessions, pages, console_logs, network_events>>
    /\ UNCHANGED <<console_calls, msg_count, requests, request_calls,
                   response_calls>>

\* page.goto(url) returns or raises
GotoDoneRollback(t, ok) ==
    /\ tasks[t].pc = "goto"
    /\ IF ~ok
       THEN Finish(t, Raised("goto"))
       ELSE IF tasks[t].tool = "playwright_new_session"
       THEN Finish(t, TextResult("created"))
       ELSE tasks' = [tasks EXCEPT ![t].pc = "text",
                                   ![t].page = PageOf(sessions, ActiveKey(sessions))]
    /\ sessions' = IF ~ok /\ tasks[t].tool = "playwright_new_session"
                   THEN SelectSeq(sessions, LAMBDA e : e.id # tasks[t].created)
                   ELSE sessions
    /\ UNCHANGED <<pages, console_logs, network_events, console_calls,
                   msg_count, requests, request_calls, response_calls>>

GotoDone(t, ok) ==
    /\ tasks[t].pc = "goto"
    /\ IF ~ok
       THEN Finish(t, Raised("goto"))
       ELSE IF tasks[t].tool = "playwright_new_session"
       THEN Finish(t, TextResult("created"))
       ELSE \* GetTextContentToolHandler().handle("", {}) up to page.evaluate
            tasks' = [tasks EXCEPT ![t].pc = "text",
                                   ![t].page = PageOf(sessions, ActiveKey(sessions))]
    /\ UNCHANGED <<sessions, pages, console_logs, network_events, console_calls,
                   msg_count, requests, request_calls, response_calls>>

\* A text is a sequence of characters.
Chars(n) == [i \in 1..n |-> "x"]

\* seq[:n] of Python for n >= 0
PyPrefix(seq, n) == SubSeq(seq, 1, Min(n, Len(seq)))

SnippetLimit == 200

\* GetTextContentToolHandler.handle returns a list of one TextContent whose
\* text is a label followed by the texts the page evaluation has found
TextContents(text) ==
    <<[type |-> "text", text |-> <<"Text content of all elements: ">> \o text]>>

\* str() of a list of contents, as an f-string embeds it: the texts of its
\* elements, each inside the notation of its object
RECURSIVE Repr(_)
Repr(contents) ==
    IF contents = <<>> THEN <<>>
    ELSE <<"TextContent(">> \o Head(contents).text \o <<")">> \o Repr(Tail(contents))

\* {text_content[:200]} of the text navigate returns: text_content is the
\* list GetTextContentToolHandler.handle has returned
NavigateSnippet(text_content) == Repr(PyPrefix(text_content, SnippetLimit))

\* playwright_navigate: the text content evaluation returns (text is what the
\* page holds) or raises
TextDone(t, ok, text) ==
    /\ tasks[t].pc = "text"
    /\ Finish(t, IF ok
                 THEN [kind |-> "text", text |-> "navigated",
                       lines |-> NavigateSnippet(TextContents(text))]
                 ELSE Raised("evaluate"))
    /\ UNCHANGED <<sessions, pages, console_logs, network_events, console_calls,
                   msg_count, requests, request_calls, response_calls>>

\* update_page_after_click around ClickToolHandler.handle and
\* ClickTextToolHandler.handle: the test of the mapping, the arming of the
\* wait for a new page of the context, and the wrapped handler up to click()
ClickStart(t, tool) ==
    /\ tasks[t].pc = "idle"
    /\ tool \in ClickTools
    /\ IF Len(sessions) = 0
       THEN tasks' = [tasks EXCEPT ![t] =
                [IdleTask EXCEPT !.pc = "done", !.tool = tool,
                                 !.result = NoSessionReply]]
       ELSE tasks' = [tasks EXCEPT ![t] =
                [IdleTask EXCEPT !.pc = "action", !.tool = tool,
                                 !.sid = ActiveKey(sessions),
                                 !.page = PageOf(sessions, ActiveKey(sessions)),
                                 !.fut = "pending"]]
    /\ UNCHANGED <<sessions, pages, console_logs, network_events, console_calls,
                   msg_count, requests, request_calls, response_calls>>

\* The driver's "page" event of a browser context: a new page opens while a
\* click on a page of the context is under way or has just been done.  It
\* resolves every wait_for_event("page") future still pending on the context.
PageOpened(ctx) ==
    /\ Len(pages) + Launching < MaxPages
    /\ \E t \in Tasks : /\ tasks[t].pc \in {"action", "wait"}
                        /\ pages[tasks[t].page].context = ctx
    /\ pages' = Append(pages, NewPage(ctx))
    /\ tasks' = [t \in Tasks |->
           IF /\ tasks[t].pc \in {"action", "wait"}
              /\ tasks[t].fut = "pending"
              /\ pages[tasks[t].page].context = ctx
           THEN [tasks[t] EXCEPT !.fut = "resolved", !.new_page = Len(pages) + 1]
           ELSE tasks[t]]
    /\ UNCHANGED <<sessions, console_logs, network_events, console_calls,
                   msg_count, requests, request_calls, response_calls>>

\* wait_for_event("page", timeout=3000): the 3 seconds pass with no new page
FutureTimeout(t) ==
    /\ tasks[t].pc \in {"action", "wait"}
    /\ tasks[t].fut = "pending"
    /\ tasks' = [tasks EXCEPT ![t].fut = "timeout"]
    /\ UNCHANGED <<sessions, pages, console_logs, network_events, console_calls,
                   msg_count, requests, request_calls, response_calls>>

\* locator(...).click() returns or raises; a raise leaves the wrapper
ClickActionDone(t, ok) ==
    /\ tasks[t].pc = "action"
    /\ IF ok
       THEN tasks' = [tasks EXCEPT ![t].pc = "wait",
                                   ![t].result = TextResult("clicked")]
       ELSE Finish(t, Raised("click"))
    /\ UNCHANGED <<sessions, pages, console_logs, network_events, console_calls,
                   msg_count, requests, request_calls, response_calls>>

\* await new_page_future: the new page, or the timeout caught by "except"
ClickWaitDoneRaises(t) ==
    /\ tasks[t].pc = "wait"
    /\ tasks[t].fut \in {"resolved", "timeout"}
    /\ IF tasks[t].fut = "resolved"
       THEN tasks' = [tasks EXCEPT ![t].pc = "load"]
       ELSE Finish(t, Raised("TimeoutError"))
    /\ UNCHANGED <<sessions, pages, console_logs, network_events, console_calls,
                   msg_count, requests, request_calls, response_calls>>

ClickWaitDone(t) ==
    /\ tasks[t].pc = "wait"
    /\ tasks[t].fut \in {"resolved", "timeout"}
    /\ IF tasks[t].fut = "resolved"
       THEN tasks' = [tasks EXCEPT ![t].pc = "load"]
       ELSE Finish(t, tasks[t].result)
    /\ UNCHANGED <<sessions, pages, console_logs, network_events, console_calls,
                   msg_count, requests, request_calls, response_calls>>

\* new_page.wait_for_load_state() returns (the page is adopted) or raises
\* (caught by "except"); the wrapper returns the handler's result
ClickLoadDone(t, ok) ==
    /\ tasks[t].pc = "load"
    /\ sessions' = IF ok THEN SetPage(sessions, tasks[t].sid, tasks[t].new_page)
                         ELSE sessions
    /\ pages' = IF ok THEN [pages EXCEPT ![tasks[t].new_page].loaded = TRUE]
                      ELSE pages
    /\ Finish(t, tasks[t].result)
    /\ UNCHANGED <<console_logs, network_events, console_calls,
                   msg_count, requests, request_calls, response_calls>>

\* screenshot, fill, evaluate, get_text_content, get_html_content: the test
\* of the mapping and the handler up to its driver operation
ToolStart(t, tool) ==
    /\ tasks[t].pc = "idle"
    /\ tool \in StatelessTools
    /\ IF Len(sessions) = 0
       THEN tasks' = [tasks EXCEPT ![t] =
                [IdleTask EXCEPT !.pc = "done", !.tool = tool,
                                 !.result = NoSessionReply]]
       ELSE tasks' = [tasks EXCEPT ![t] =
                [IdleTask EXCEPT !.pc = "op", !.tool = tool,
                                 !.sid = ActiveKey(sessions),
                                 !.page = PageOf(sessions, ActiveKey(sessions))]]
    /\ UNCHANGED <<sessions, pages, console_logs, network_events, console_calls,
                   msg_count, requests, request_calls, response_calls>>

\* the driver operation of a stateless tool returns or raises
ToolOpDone(t, ok) ==
    /\ tasks[t].pc = "op"
    /\ Finish(t, IF ~ok THEN Raised("driver")
                 ELSE IF tasks[t].tool = "playwright_screenshot" THEN ImageResult
                 ELSE TextResult("ok"))
    /\ UNCHANGED <<sessions, pages, console_logs, network_events, console_calls,
                   msg_count, requests, request_calls, response_calls>>

\* handle_call_tool has returned the result to the protocol layer
Return(t) ==
    /\ tasks[t].pc = "done"
    /\ tasks' = [tasks EXCEPT ![t] = IdleTask]
    /\ UNCHANGED <<sessions, pages, console_logs, network_events, console_calls,
                   msg_count, requests, request_calls, response_calls>>

\* ------------------------------------------------------------ the queries
\* seq[-limit:] of Python: the start index -limit, counted from the end when
\* negative, clipped to the list
PySuffixPrefix(seq, limit) ==
    SubSeq(seq, 1, Min(Max(limit, -limit), Len(seq)))

PySuffix(seq, limit) ==
    LET n == Len(seq)
        start == IF -limit < 0 THEN Max(n - limit, 0) ELSE Min(-limit, n)
    IN  SubSeq(seq, start + 1, n)

ConsoleDefaultLimit == 100
NetworkDefaultLimit == 50

\* one line of the console report
FormatConsole(log) ==
    [timestamp |-> log.timestamp, type |-> log.type, text |-> log.text,
     at |-> IF IsNone(log.location.lineNumber) THEN None
            ELSE Some(<<log.location.url, Val(log.location.lineNumber),
                        log.location.columnNumber>>)]

\* ConsoleLogHandler.handle, lines 49-59: the logs that are reported
ConsoleSelectLimitFirst(logs, args) ==
    LET limit == IF IsNone(args.limit) THEN ConsoleDefaultLimit ELSE Val(args.limit)
        cut == PySuffix(logs, limit)
        Match(log) == log.type = Val(args.type)
    IN  IF TruthyStr(args.type) THEN SelectSeq(cut, Match) ELSE cut

ConsoleSelect(logs, args) ==
    LET Match(log) == log.type = Val(args.type)
        filtered == IF TruthyStr(args.type) THEN SelectSeq(logs, Match) ELSE logs
        limit == IF IsNone(args.limit) THEN ConsoleDefaultLimit ELSE Val(args.limit)
    IN  PySuffix(filtered, limit)

\* ConsoleLogHandler.handle, lines 61-70: the text that is returned
ConsoleReport(logs, args) ==
    LET sel == ConsoleSelect(logs, args)
        lines == [i \in 1..Len(sel) |-> FormatConsole(sel[i])]
    IN  IF lines = <<>>
        THEN TextResult("No console logs available.")
        ELSE [kind |-> "text", text |-> "logs", lines |-> lines]

\* url_filter in e["url"]: a URL is a sequence of tokens
Contains(part, whole) ==
    \E i \in 0..(Len(whole) - Len(part)) :
        SubSeq(whole, i + 1, i + Len(part)) = part

\* one line of the network report (show_headers and show_body not given)
FormatNetwork(e) ==
    [timestamp |-> e.timestamp, method |-> e.method, url |-> e.url,
     resource_type |-> e.resource_type,
     status |-> IF IsNone(e.status) THEN None
                ELSE Some(<<Val(e.status), Val(e.status_text)>>),
     size |-> e.response_size]

\* the status bounds tested for truth, so that a bound of 0 counts as absent
NetworkFilterTruthy(events, args) ==
    LET Given(b) == ~IsNone(b) /\ Val(b) # 0
        ByUrl(e) == Contains(Val(args.url), e.url)
        ByMethod(e) == e.method = Val(args.method)
        ByMin(e) == ~IsNone(e.status) /\ Val(e.status) >= Val(args.status_min)
        ByMax(e) == ~IsNone(e.status) /\ Val(e.status) <= Val(args.status_max)
        ByType(e) == e.resource_type = Val(args.resource_type)
        e1 == IF TruthyUrl(args.url) THEN SelectSeq(events, ByUrl) ELSE events
        e2 == IF TruthyStr(args.method) THEN SelectSeq(e1, ByMethod) ELSE e1
        e3 == IF Given(args.status_min) THEN SelectSeq(e2, ByMin) ELSE e2
        e4 == IF Given(args.status_max) THEN SelectSeq(e3, ByMax) ELSE e3
    IN  IF TruthyStr(args.resource_type) THEN SelectSeq(e4, ByType) ELSE e4

\* NetworkHandler.handle, lines 106-137: the events that are reported
NetworkFilter(events, args) ==
    LET ByUrl(e) == Contains(Val(args.url), e.url)
        ByMethod(e) == e.method = Val(args.method)
        ByMin(e) == ~IsNone(e.status) /\ Val(e.status) >= Val(args.status_min)
        ByMax(e) == ~IsNone(e.status) /\ Val(e.status) <= Val(args.status_max)
        ByType(e) == e.resource_type = Val(args.resource_type)
        e1 == IF TruthyUrl(args.url) THEN SelectSeq(events, ByUrl) ELSE events
        e2 == IF TruthyStr(args.method) THEN SelectSeq(e1, ByMethod) ELSE e1
        e3 == IF ~IsNone(args.status_min) THEN SelectSeq(e2, ByMin) ELSE e2
        e4 == IF ~IsNone(args.status_max) THEN SelectSeq(e3, ByMax) ELSE e3
    IN  IF TruthyStr(args.resource_type) THEN SelectSeq(e4, ByType) ELSE e4

NetworkLimit(args) ==
    IF IsNone(args.limit) THEN NetworkDefaultLimit ELSE Val(args.limit)

NetworkSelectLimitFirst(events, args) ==
    NetworkFilter(PySuffix(events, NetworkLimit(args)), args)

NetworkSelect(events, args) ==
    PySuffix(NetworkFilter(events, args), NetworkLimit(args))

\* NetworkHandler.handle, lines 139-185: the text that is returned
NetworkReportJoined(events, args) ==
    LET sel == NetworkSelect(events, args)
        lines == [i \in 1..Len(sel) |-> FormatNetwork(sel[i])]
    IN  [kind |-> "text", text |-> IF lines = <<>> THEN "" ELSE "events",
         lines |-> lines]

NetworkReport(events, args) ==
    LET sel == NetworkSelect(events, args)
        lines == [i \in 1..Len(sel) |-> FormatNetwork(sel[i])]
    IN  IF lines = <<>>
        THEN TextResult("No network activity recorded.")
        ELSE [kind |-> "text", text |-> "events", lines |-> lines]

\* playwright_get_console_logs: the handler never suspends (time.sleep blocks
\* the event loop), so the whole call is one step
GetConsoleLogs(t, args) ==
    /\ tasks[t].pc = "idle"
    /\ IF Len(sessions) = 0
       THEN /\ tasks' = [tasks EXCEPT ![t] =
                 [IdleTask EXCEPT !.pc = "done",
                                  !.tool = "playwright_get_console_logs",
                                  !.args = args,
                                  !.result = NoSessionErrorReply]]
            /\ UNCHANGED <<pages, console_logs>>
       ELSE LET sid == ActiveKey(sessions)
                p == PageOf(sessions, sid)
            IN  /\ console_logs' = EnsureBucket(console_logs, sid)
                /\ pages' = [pages EXCEPT ![p] = SetupConsoleListener(@, sid)]
                /\ tasks' = [tasks EXCEPT ![t] =
                     [IdleTask EXCEPT !.pc = "done",
                                      !.tool = "playwright_get_console_logs",
                                      !.args = args, !.sid = sid,
                                      !.result = ConsoleReport(console_logs'[sid], args)]]
    /\ UNCHANGED <<sessions, network_events, console_calls, msg_count, requests,
                   request_calls, response_calls>>

\* playwright_get_network_activity: no suspension either
GetNetworkActivity(t, args) ==
    /\ tasks[t].pc = "idle"
    /\ IF Len(sessions) = 0
       THEN /\ tasks' = [tasks EXCEPT ![t] =
                 [IdleTask EXCEPT !.pc = "done",
                                  !.tool = "playwright_get_network_activity",
                                  !.args = args,
                                  !.result = NoSessionErrorReply]]
            /\ UNCHANGED <<pages, network_events>>
       ELSE LET sid == ActiveKey(sessions)
                p == PageOf(sessions, sid)
            IN  /\ network_events' = EnsureBucket(network_events, sid)
                /\ pages' = [pages EXCEPT ![p] = SetupNetworkListener(@, sid)]
                /\ tasks' = [tasks EXCEPT ![t] =
                     [IdleTask EXCEPT !.pc = "done",
                                      !.tool = "playwright_get_network_activity",
                                      !.args = args, !.sid = sid,
                                      !.result = NetworkReport(network_events'[sid], args)]]
    /\ UNCHANGED <<sessions, console_logs, console_calls, msg_count, requests,
                   request_calls, response_calls>>

\* ------------------------------------------------------- console callbacks
ConsoleTypes == {"log", "error"}

\* The driver emits a console message of page p: the event emitter starts one
\* handle_console coroutine per subscription, and each runs up to its
\* "await page.evaluate(...)" for the timestamp.
ConsoleMessage(p, ty) ==
    /\ msg_count < MaxMsgs
    /\ p \in 1..Len(pages)
    /\ msg_count' = msg_count + 1
    /\ console_calls' = console_calls \cup
           {[msg |-> msg_count + 1, sub |-> i, sid |-> pages[p].console_subs[i],
             page |-> p, type |-> ty, pc |-> "timestamp"] :
                i \in 1..Len(pages[p].console_subs)}
    /\ UNCHANGED <<sessions, pages, console_logs, network_events, tasks,
                   requests, request_calls, response_calls>>

\* the entry handle_console builds; msg.location is a dict of the driver, so
\* getattr(msg.location, "lineNumber", None) is None
ConsoleEntry(c) ==
    [type |-> c.type, text |-> c.msg,
     location |-> [url |-> c.page, lineNumber |-> None, columnNumber |-> None],
     timestamp |-> "ts"]

\* page.evaluate returns and the entry is appended, or it raises: nothing is
\* appended and, handle_console having no try, the exception leaves the
\* coroutine (the call stays in console_calls as the task that ended with it)
ConsoleTimestampActive(c, ok) ==
    /\ c \in console_calls
    /\ c.pc = "timestamp"
    /\ console_calls' = IF ok
                        THEN console_calls \ {c}
                        ELSE (console_calls \ {c}) \cup {[c EXCEPT !.pc = "raised"]}
    /\ console_logs' = IF ok
                       THEN [console_logs EXCEPT ![ActiveKey(sessions)] =
                                 Append(@, ConsoleEntry(c))]
                       ELSE console_logs
    /\ UNCHANGED <<sessions, pages, network_events, tasks, msg_count,
                   requests, request_calls, response_calls>>

ConsoleTimestamp(c, ok) ==
    /\ c \in console_calls
    /\ c.pc = "timestamp"
    /\ console_calls' = IF ok
                        THEN console_calls \ {c}
                        ELSE (console_calls \ {c}) \cup {[c EXCEPT !.pc = "raised"]}
    /\ console_logs' = IF ok
                       THEN [console_logs EXCEPT ![c.sid] = Append(@, ConsoleEntry(c))]
                       ELSE console_logs
    /\ UNCHANGED <<sessions, pages, network_events, tasks, msg_count,
                   requests, request_calls, response_calls>>

\* ------------------------------------------------------- network callbacks
\* The driver's Request object: id(request) identifies it while it lives, and
\* the driver keeps every request of an open page alive, so the model uses the
\* position of the request in the list of requests as its id.
NewRequest(p, u, m, rt) ==
    [page |-> p, url |-> u, method |-> m, resource_type |-> rt, response |-> None]

\* The driver emits the "request" event of a new request of page p: one
\* handle_request coroutine per subscription starts and runs up to
\* "await request.all_headers()".
RequestEvent(p, u, m, rt) ==
    /\ Len(requests) < MaxRequests
    /\ p \in 1..Len(pages)
    /\ requests' = Append(requests, NewRequest(p, u, m, rt))
    /\ request_calls' = request_calls \cup
           {[req |-> Len(requests) + 1, sub |-> i, sid |-> pages[p].request_subs[i],
             pc |-> "headers"] : i \in 1..Len(pages[p].request_subs)}
    /\ UNCHANGED <<sessions, pages, console_logs, network_events, tasks,
                   console_calls, msg_count, response_calls>>

\* request.all_headers() returns or raises.  request.post_data is a property
\* of the driver, so "await request.post_data()" raises at once, the bare
\* except passes and post_data stays None; the coroutine suspends next in
\* page.evaluate for the timestamp.  A raise of all_headers ends the callback.
RequestHeadersDone(c, ok) ==
    /\ c \in request_calls
    /\ c.pc = "headers"
    /\ request_calls' = IF ok
                        THEN (request_calls \ {c}) \cup {[c EXCEPT !.pc = "timestamp"]}
                        ELSE request_calls \ {c}
    /\ UNCHANGED <<sessions, pages, console_logs, network_events, tasks,
                   console_calls, msg_count, requests, response_calls>>

\* request_data of handle_request
PendingEvent(r, req) ==
    [id |-> r, type |-> "request", url |-> req.url,
     method |-> req.method, headers |-> "headers", post_data |-> None,
     resource_type |-> req.resource_type, timestamp |-> "ts",
     status |-> None, status_text |-> None, response_headers |-> None,
     response_size |-> None, response_body |-> None]

RequestData(r) == PendingEvent(r, requests[r])

\* page.evaluate returns and the pending event is appended, or it raises and
\* the except of handle_request swallows it
RequestTimestampDone(c, ok) ==
    /\ c \in request_calls
    /\ c.pc = "timestamp"
    /\ request_calls' = request_calls \ {c}
    /\ network_events' =
           IF ok
           THEN [network_events EXCEPT ![c.sid] = Append(@, RequestData(c.req))]
           ELSE network_events
    /\ UNCHANGED <<sessions, pages, console_logs, tasks, console_calls,
                   msg_count, requests, response_calls>>

\* The driver emits the "response" event of request r, once, after its
\* "request" event: one handle_response coroutine per subscription is
\* scheduled.  resp holds what the driver will answer for this response.
ResponseEvent(r, resp) ==
    /\ r \in 1..Len(requests)
    /\ IsNone(requests[r].response)
    /\ requests' = [requests EXCEPT ![r].response = Some(resp)]
    /\ response_calls' = response_calls \cup
           {[req |-> r, sub |-> i,
             sid |-> pages[requests[r].page].response_subs[i],
             pc |-> "scan", event |-> 0]
              : i \in 1..Len(pages[requests[r].page].response_subs)}
    /\ UNCHANGED <<sessions, pages, console_logs, network_events, tasks,
                   console_calls, msg_count, request_calls>>

\* "for event in self._network_events[session_id]: if event["id"] ==
\* request_id": the position of the first event with the id, 0 if there is none
FindEventLast(events, r) ==
    IF \E i \in 1..Len(events) : events[i].id = r
    THEN CHOOSE i \in 1..Len(events) :
             /\ events[i].id = r
             /\ \A j \in (i + 1)..Len(events) : events[j].id # r
    ELSE Len(events)

FindEvent(events, r) ==
    IF \E i \in 1..Len(events) : events[i].id = r
    THEN CHOOSE i \in 1..Len(events) :
             /\ events[i].id = r
             /\ \A j \in 1..(i - 1) : events[j].id # r
    ELSE 0

\* handle_response runs from its start to "await response.all_headers()" when
\* the scan finds the event, and to its end when it finds none
ResponseScan(c) ==
    /\ c \in response_calls
    /\ c.pc = "scan"
    /\ LET i == FindEvent(network_events[c.sid], c.req)
       IN  response_calls' =
               IF i = 0
               THEN response_calls \ {c}
               ELSE (response_calls \ {c}) \cup {[c EXCEPT !.pc = "headers", !.event = i]}
    /\ UNCHANGED <<sessions, pages, console_logs, network_events, tasks,
                   console_calls, msg_count, requests, request_calls>>

\* event.update({"status": ..., "status_text": ..., "response_headers": ...})
PatchStatusRetype(e, resp) ==
    [e EXCEPT !.type = "response",
              !.status = Some(resp.status),
              !.status_text = Some(resp.status_text),
              !.response_headers = Some([content_type |-> resp.content_type])]

PatchStatusOnly(e, resp) == [e EXCEPT !.status = Some(resp.status)]

PatchStatus(e, resp) ==
    [e EXCEPT !.status = Some(resp.status),
              !.status_text = Some(resp.status_text),
              !.response_headers = Some([content_type |-> resp.content_type])]

\* response.all_headers() returns and the event is patched, then the
\* coroutine suspends in response.body(); or it raises and the outer except
\* ends the callback
ResponseHeadersDone(c, ok) ==
    /\ c \in response_calls
    /\ c.pc = "headers"
    /\ response_calls' = IF ok
                         THEN (response_calls \ {c}) \cup {[c EXCEPT !.pc = "body"]}
                         ELSE response_calls \ {c}
    /\ network_events' =
           IF ok
           THEN [network_events EXCEPT ![c.sid][c.event] =
                     PatchStatus(@, Val(requests[c.req].response))]
           ELSE network_events
    /\ UNCHANGED <<sessions, pages, console_logs, tasks, console_calls,
                   msg_count, requests, request_calls>>

BodyLimit == 10240

\* "json" in content_type or "text" in ... : the content type is a sequence
\* of tokens; headers.get("content-type", "") is empty without the header
TextMarkers == {"json", "text", "javascript", "css"}

IsTextual(content_type) ==
    LET ct == IF IsNone(content_type) THEN <<>> ELSE Val(content_type)
    IN  \E i \in 1..Len(ct) : ct[i] \in TextMarkers

\* lines 68-81: the size, and the body of a small textual response
PatchBodyAtMost(e, resp) ==
    [e EXCEPT !.response_size = Some(resp.size),
              !.response_body =
                  IF /\ resp.size <= BodyLimit
                     /\ IsTextual(resp.content_type)
                     /\ resp.decodable
                  THEN Some("body") ELSE @]

\* the body stored without its size
PatchBodyNoSize(e, resp) ==
    [e EXCEPT !.response_body =
                  IF /\ resp.size < BodyLimit
                     /\ IsTextual(resp.content_type)
                     /\ resp.decodable
                  THEN Some("body") ELSE @]

PatchBody(e, resp) ==
    [e EXCEPT !.response_size = Some(resp.size),
              !.response_body =
                  IF /\ resp.size < BodyLimit
                     /\ IsTextual(resp.content_type)
                     /\ resp.decodable
                  THEN Some("body") ELSE @]

\* response.body() returns and size and body are stored, or it raises and
\* the inner except passes; the callback ends
ResponseBodyDone(c, ok) ==
    /\ c \in response_calls
    /\ c.pc = "body"
    /\ response_calls' = response_calls \ {c}
    /\ network_events' =
           IF ok
           THEN [network_events EXCEPT ![c.sid][c.event] =
                     PatchBody(@, Val(requests[c.req].response))]
           ELSE network_events
    /\ UNCHANGED <<sessions, pages, console_logs, tasks, console_calls,
                   msg_count, requests, request_calls>>

\* ------------------------------------------------------ the specification
Init ==
    /\ sessions = <<>>
    /\ pages = <<>>
    /\ console_logs = <<>>
    /\ network_events = <<>>
    /\ tasks = [t \in Tasks |-> IdleTask]
    /\ console_calls = {}
    /\ msg_count = 0
    /\ requests = <<>>
    /\ request_calls = {}
    /\ response_calls = {}

\* the arguments of the tool calls of Spec
SpecUrl == <<"example", ".com">>
SessionArgs == {NoArgs, [NoArgs EXCEPT !.url = Some(SpecUrl)]}
\* the text of the pages of Spec
SpecText == Chars(1)

Next ==
    \/ \E t \in Tasks, args \in SessionArgs : NewSessionStart(t, args)
    \/ \E t \in Tasks, ok \in BOOLEAN : NewSessionRegister(t, ok)
    \/ \E t \in Tasks : NavigateStart(t, [NoArgs EXCEPT !.url = Some(SpecUrl)])
    \/ \E t \in Tasks, ok \in BOOLEAN : NavigateRegister(t, ok)
    \/ \E t \in Tasks, ok \in BOOLEAN : GotoDone(t, ok)
    \/ \E t \in Tasks, ok \in BOOLEAN : TextDone(t, ok, SpecText)
    \/ \E t \in Tasks, tool \in ClickTools : ClickStart(t, tool)
    \/ \E ctx \in 1..MaxSessions : PageOpened(ctx)
    \/ \E t \in Tasks : FutureTimeout(t)
    \/ \E t \in Tasks, ok \in BOOLEAN : ClickActionDone(t, ok)
    \/ \E t \in Tasks : ClickWaitDone(t)
    \/ \E t \in Tasks, ok \in BOOLEAN : ClickLoadDone(t, ok)
    \/ \E t \in Tasks, tool \in StatelessTools : ToolStart(t, tool)
    \/ \E t \in Tasks, ok \in BOOLEAN : ToolOpDone(t, ok)
    \/ \E t \in Tasks : GetConsoleLogs(t, NoArgs)
    \/ \E t \in Tasks : GetNetworkActivity(t, NoArgs)
    \/ \E t \in Tasks : Return(t)

Spec == Init /\ [][Next]_vars

\* ------------------------------------------- the event-capture specification
\* The callbacks of one instrumented page, interleaved with each other and
\* with the two log tools (which attach again).  It starts where a
\* playwright_new_session call without a URL has returned.
EventsInit ==
    /\ sessions = DictSet(<<>>, 1, [browser |-> 1, page |-> 1])
    /\ pages = <<InitializeSession(BlankPage(1), 1)>>
    /\ console_logs = EnsureBucket(<<>>, 1)
    /\ network_events = EnsureBucket(<<>>, 1)
    /\ tasks = [t \in Tasks |-> IdleTask]
    /\ console_calls = {}
    /\ msg_count = 0
    /\ requests = <<>>
    /\ request_calls = {}
    /\ response_calls = {}

EventsUrl == <<"https://", "a", "/x">>
Response(st, ct, size, dec) ==
    [status |-> st, status_text |-> "st", content_type |-> ct, size |-> size,
     decodable |-> dec]
JsonType == Some(<<"application", "/", "json">>)
PngType == Some(<<"image", "/", "png">>)
EventsResponses == {Response(200, JsonType, 0, TRUE), Response(404, PngType, BodyLimit, FALSE)}

\* the driver delivers at most MaxEvents console messages and requests
EventsLeft == msg_count + Len(requests) < MaxEvents

EventsNext ==
    \/ GetConsoleLogs(1, NoArgs)
    \/ GetNetworkActivity(1, NoArgs)
    \/ Return(1)
    \/ \E ty \in ConsoleTypes : EventsLeft /\ ConsoleMessage(1, ty)
    \/ \E c \in console_calls, ok \in BOOLEAN : ConsoleTimestamp(c, ok)
    \/ EventsLeft /\ RequestEvent(1, EventsUrl, "GET", "document")
    \/ \E c \in request_calls, ok \in BOOLEAN : RequestHeadersDone(c, ok)
    \/ \E c \in request_calls, ok \in BOOLEAN : RequestTimestampDone(c, ok)
    \/ \E r \in 1..MaxRequests, resp \in EventsResponses : ResponseEvent(r, resp)
    \/ \E c \in response_calls : ResponseScan(c)
    \/ \E c \in response_calls, ok \in BOOLEAN : ResponseHeadersDone(c, ok)
    \/ \E c \in response_calls, ok \in BOOLEAN : ResponseBodyDone(c, ok)

SpecEvents == EventsInit /\ [][EventsNext]_vars

\* The request and response callbacks alone, with every driver call of the
\* callbacks succeeding: what is left is the interleaving of the callbacks.
RaceNext ==
    \/ RequestEvent(1, EventsUrl, "GET", "document")
    \/ \E c \in request_calls : RequestHeadersDone(c, TRUE)
    \/ \E c \in request_calls : RequestTimestampDone(c, TRUE)
    \/ \E r \in 1..MaxRequests, resp \in EventsResponses : ResponseEvent(r, resp)
    \/ \E c \in response_calls : ResponseScan(c)
    \/ \E c \in response_calls : ResponseHeadersDone(c, TRUE)
    \/ \E c \in response_calls : ResponseBodyDone(c, TRUE)

SpecRace == EventsInit /\ [][RaceNext]_vars

\* --------------------------------------------- the navigation specification
\* new_session and navigate on every short URL: a URL is any sequence of at
\* most MaxUrl of these tokens, among them "http://x", "https://", "https"
\* and "example.com".
UrlTokens == {"http", "s", "://", "example.com"}
Urls == UNION {[1..n -> UrlTokens] : n \in 0..MaxUrl}
\* the pages hold no text, a short text, or a text longer than the snippet
PageTexts == {Chars(0), Chars(1), Chars(SnippetLimit + 1)}

NavigationNext ==
    \/ \E u \in Urls : NewSessionStart(1, [NoArgs EXCEPT !.url = Some(u)])
    \/ \E ok \in BOOLEAN : NewSessionRegister(1, ok)
    \/ \E u \in Urls : NavigateStart(1, [NoArgs EXCEPT !.url = Some(u)])
    \/ \E ok \in BOOLEAN : NavigateRegister(1, ok)
    \/ \E ok \in BOOLEAN : GotoDone(1, ok)
    \/ \E ok \in BOOLEAN, text \in PageTexts : TextDone(1, ok, text)
    \/ Return(1)

SpecNavigation == Init /\ [][NavigationNext]_vars

\* ----------------------------------------------- the append specification
\* Everything that touches the logs of one session at once: the callbacks of
\* its pages, the two log tools (which attach again, also to an adopted page)
\* and clicks that open and adopt pages.  The failures of the driver calls
\* that do not write a log are left to the other specifications.
AppendNext ==
    \/ GetConsoleLogs(1, NoArgs)
    \/ GetNetworkActivity(1, NoArgs)
    \/ \E t \in Tasks : Return(t)
    \/ ClickStart(2, "playwright_click")
    \/ PageOpened(1)
    \/ FutureTimeout(2)
    \/ ClickActionDone(2, TRUE)
    \/ ClickWaitDone(2)
    \/ ClickLoadDone(2, TRUE)
    \/ \E p \in 1..Len(pages) : EventsLeft /\ ConsoleMessage(p, "log")
    \/ \E c \in console_calls, ok \in BOOLEAN : ConsoleTimestamp(c, ok)
    \/ \E p \in 1..Len(pages) :
          EventsLeft /\ RequestEvent(p, EventsUrl, "GET", "document")
    \/ \E c \in request_calls : RequestHeadersDone(c, TRUE)
    \/ \E c \in request_calls, ok \in BOOLEAN : RequestTimestampDone(c, ok)
    \/ \E r \in 1..MaxRequests : ResponseEvent(r, Response(200, JsonType, 0, TRUE))
    \/ \E c \in response_calls : ResponseScan(c)
    \/ \E c \in response_calls : ResponseHeadersDone(c, TRUE)
    \/ \E c \in response_calls : ResponseBodyDone(c, TRUE)

SpecAppend == EventsInit /\ [][AppendNext]_vars

\* ------------------------------------------- the several-sessions specification
\* Sessions are created one after the other by one caller, which also calls
\* the log tools, while a second caller clicks; the pages of all sessions,
\* tracked or not, emit console messages and requests.
SessionsNext ==
    \/ NewSessionStart(1, NoArgs)
    \/ NewSessionRegister(1, TRUE)
    \/ GetConsoleLogs(1, NoArgs)
    \/ GetNetworkActivity(1, NoArgs)
    \/ \E t \in Tasks : Return(t)
    \/ ClickStart(2, "playwright_click")
    \/ \E ctx \in 1..MaxSessions : PageOpened(ctx)
    \/ FutureTimeout(2)
    \/ ClickActionDone(2, TRUE)
    \/ ClickWaitDone(2)
    \/ ClickLoadDone(2, TRUE)
    \/ \E p \in 1..Len(pages) : EventsLeft /\ ConsoleMessage(p, "log")
    \/ \E c \in console_calls : ConsoleTimestamp(c, TRUE)
    \/ \E p \in 1..Len(pages) :
          EventsLeft /\ RequestEvent(p, EventsUrl, "GET", "document")
    \/ \E c \in request_calls : RequestHeadersDone(c, TRUE)
    \/ \E c \in request_calls : RequestTimestampDone(c, TRUE)
    \/ \E r \in 1..MaxRequests : ResponseEvent(r, Response(200, JsonType, 0, TRUE))
    \/ \E c \in response_calls : ResponseScan(c)
    \/ \E c \in response_calls : ResponseHeadersDone(c, TRUE)
    \/ \E c \in response_calls : ResponseBodyDone(c, TRUE)

SpecSessions == Init /\ [][SessionsNext]_vars

\* ------------------------------------------------- the wait specification
\* get_console_logs with its wait made visible.  time.sleep(5) does not
\* suspend the coroutine: it blocks the thread of the event loop, so while a
\* call sleeps no coroutine and no callback runs.  The browser is another
\* process and goes on emitting console messages, which wait in the
\* transport until the event loop runs again.

\* a get_console_logs call is inside time.sleep(5)
Blocked == \E t \in Tasks : tasks[t].pc = "sleep"

\* ConsoleLogHandler.handle up to time.sleep: the active session and the attach
ConsoleAttach(t, args) ==
    /\ tasks[t].pc = "idle"
    /\ Len(sessions) > 0
    /\ LET sid == ActiveKey(sessions)
           p == PageOf(sessions, sid)
       IN  /\ console_logs' = EnsureBucket(console_logs, sid)
           /\ pages' = [pages EXCEPT ![p] = SetupConsoleListener(@, sid)]
           /\ tasks' = [tasks EXCEPT ![t] =
                [IdleTask EXCEPT !.pc = "sleep",
                                 !.tool = "playwright_get_console_logs",
                                 !.args = args, !.sid = sid, !.page = p]]
    /\ UNCHANGED <<sessions, network_events, console_calls, msg_count, requests,
                   request_calls, response_calls>>

\* the browser emits a console message of page p during the sleep: the driver
\* has it, no handle_console has been started for it
BrowserConsole(p, ty) ==
    /\ Blocked
    /\ msg_count < MaxMsgs
    /\ p \in 1..Len(pages)
    /\ msg_count' = msg_count + 1
    /\ console_calls' = console_calls \cup
           {[msg |-> msg_count + 1, sub |-> 0, sid |-> 0, page |-> p,
             type |-> ty, pc |-> "emitted"]}
    /\ UNCHANGED <<sessions, pages, console_logs, network_events, tasks,
                   requests, request_calls, response_calls>>

\* the event loop runs again and the event emitter starts one handle_console
\* per subscription for a message that has waited
ConsoleDispatch(c) ==
    /\ ~Blocked
    /\ c \in console_calls
    /\ c.pc = "emitted"
    /\ console_calls' = (console_calls \ {c}) \cup
           {[c EXCEPT !.sub = i, !.sid = pages[c.page].console_subs[i],
                      !.pc = "timestamp"] :
                i \in 1..Len(pages[c.page].console_subs)}
    /\ UNCHANGED <<sessions, pages, console_logs, network_events, tasks,
                   msg_count, requests, request_calls, response_calls>>

\* ConsoleLogHandler.handle from the return of time.sleep to its own return
ConsoleRead(t) ==
    /\ tasks[t].pc = "sleep"
    /\ tasks' = [tasks EXCEPT ![t] =
           [IdleTask EXCEPT !.pc = "done", !.tool = tasks[t].tool,
                            !.args = tasks[t].args, !.sid = tasks[t].sid,
                            !.result = ConsoleReport(console_logs[tasks[t].sid],
                                                     tasks[t].args)]]
    /\ UNCHANGED <<sessions, pages, console_logs, network_events, console_calls,
                   msg_count, requests, request_calls, response_calls>>

WaitNext ==
    \/ \E t \in Tasks : ~Blocked /\ ConsoleAttach(t, NoArgs)
    \/ \E ty \in ConsoleTypes : BrowserConsole(1, ty)
    \/ \E t \in Tasks : ConsoleRead(t)
    \/ \E t \in Tasks : ~Blocked /\ Return(t)
    \/ \E ty \in ConsoleTypes : ~Blocked /\ ConsoleMessage(1, ty)
    \/ \E c \in console_calls : ConsoleDispatch(c)
    \/ \E c \in console_calls, ok \in BOOLEAN : ~Blocked /\ ConsoleTimestamp(c, ok)

SpecWait == EventsInit /\ [][WaitNext]_vars

\* ------------------------------------------------ the click specification
\* click and click_text calls on one session, and the pages they open.  Every
\* await of the wrapper ends: the locator action and wait_for_load_state
\* return or raise within the driver's own timeouts, and the wait for a new
\* page is resolved by the page or by its 3000 ms timeout.
ClickNext ==
    \/ \E t \in Tasks, tool \in ClickTools : ClickStart(t, tool)
    \/ \E ctx \in 1..MaxSessions : PageOpened(ctx)
    \/ \E t \in Tasks : FutureTimeout(t)
    \/ \E t \in Tasks, ok \in BOOLEAN : ClickActionDone(t, ok)
    \/ \E t \in Tasks : ClickWaitDone(t)
    \/ \E t \in Tasks, ok \in BOOLEAN : ClickLoadDone(t, ok)
    \/ \E t \in Tasks : Return(t)

SpecClick ==
    /\ EventsInit
    /\ [][ClickNext]_vars
    /\ \A t \in Tasks :
        /\ WF_vars(\E ok \in BOOLEAN : ClickActionDone(t, ok))
        /\ WF_vars(FutureTimeout(t))
        /\ WF_vars(ClickWaitDone(t))
        /\ WF_vars(\E ok \in BOOLEAN : ClickLoadDone(t, ok))

\* ------------------------------------------ the response-capture specification
\* What handle_response stores for one response, for every kind of response:
\* it starts where the request callback of one request has appended its event.
ContentTypes ==
    {None, JsonType, PngType,
     Some(<<"text", "/", "html">>),
     Some(<<"application", "/", "javascript">>),
     Some(<<"text", "/", "css">>)}
BodySizes == {0, BodyLimit - 1, BodyLimit}
AllResponses ==
    {Response(st, ct, size, dec) :
        st \in {200, 404}, ct \in ContentTypes, size \in BodySizes, dec \in BOOLEAN}

BodyInit ==
    /\ sessions = DictSet(<<>>, 1, [browser |-> 1, page |-> 1])
    /\ pages = <<InitializeSession(BlankPage(1), 1)>>
    /\ console_logs = EnsureBucket(<<>>, 1)
    /\ requests = <<NewRequest(1, EventsUrl, "GET", "document")>>
    /\ network_events = [EnsureBucket(<<>>, 1) EXCEPT ![1] =
                             <<PendingEvent(1, NewRequest(1, EventsUrl, "GET", "document"))>>]
    /\ tasks = [t \in Tasks |-> IdleTask]
    /\ console_calls = {}
    /\ msg_count = 0
    /\ request_calls = {}
    /\ response_calls = {}

BodyNext ==
    \/ \E resp \in AllResponses : ResponseEvent(1, resp)
    \/ \E c \in response_calls : ResponseScan(c)
    \/ \E c \in response_calls, ok \in BOOLEAN : ResponseHeadersDone(c, ok)
    \/ \E c \in response_calls, ok \in BOOLEAN : ResponseBodyDone(c, ok)

SpecBody == BodyInit /\ [][BodyNext]_vars

\* ------------------------------------------------- the query specification
\* The two log tools on every short history of one session, and on one
\* history longer than the default limit.  A history is what the callbacks
\* of the session's page have stored.
ConsoleHistory(types) ==
    [i \in 1..Len(types) |-> ConsoleEntry([type |-> types[i], msg |-> i, page |-> 1])]

ConsoleHistories ==
    {ConsoleHistory(types) : types \in UNION {[1..n -> ConsoleTypes] : n \in 0..MaxLog}}
    \cup {ConsoleHistory([i \in 1..(ConsoleDefaultLimit + 1) |->
                              IF i = 1 THEN "error" ELSE "log"])}

QueryUrls == {<<"https://", "a", "/x">>, <<"https://", "b", "/x">>}
QueryResponses ==
    {None, Some(Response(200, JsonType, 0, TRUE)),
     Some(Response(404, PngType, BodyLimit, FALSE))}
\* the page at a is a document, the one at b an image
QueryRequests ==
    {[NewRequest(1, u, m, IF u[2] = "a" THEN "document" ELSE "image")
         EXCEPT !.response = resp] :
        u \in QueryUrls, m \in {"GET", "POST"}, resp \in QueryResponses}

\* the event of request i once its callbacks have run
StoredEvent(i, req) ==
    IF IsNone(req.response)
    THEN PendingEvent(i, req)
    ELSE PatchBody(PatchStatus(PendingEvent(i, req), Val(req.response)),
                   Val(req.response))

RequestHistories ==
    UNION {[1..n -> QueryRequests] : n \in 0..MaxLog}
    \cup {[i \in 1..(NetworkDefaultLimit + 1) |->
              [NewRequest(1, <<"https://", "a", "/x">>,
                          IF i = 1 THEN "POST" ELSE "GET", "document")
                  EXCEPT !.response = Some(Response(IF i = 1 THEN 404 ELSE 200,
                                                    JsonType, 0, TRUE))]]}

QueryInit ==
    /\ sessions = DictSet(<<>>, 1, [browser |-> 1, page |-> 1])
    /\ pages = <<InitializeSession(BlankPage(1), 1)>>
    /\ tasks = [t \in Tasks |-> IdleTask]
    /\ console_calls = {}
    /\ request_calls = {}
    /\ response_calls = {}
    /\ \/ /\ console_logs \in {(1 :> h) : h \in ConsoleHistories}
          /\ msg_count = Len(console_logs[1])
          /\ requests = <<>>
          /\ network_events = EnsureBucket(<<>>, 1)
       \/ /\ requests \in RequestHistories
          /\ network_events = (1 :> [i \in 1..Len(requests) |-> StoredEvent(i, requests[i])])
          /\ msg_count = 0
          /\ console_logs = EnsureBucket(<<>>, 1)

Limits == {None} \cup {Some(n) : n \in 1..MaxLog}
ConsoleArgs ==
    {[NoArgs EXCEPT !.type = ty, !.limit = lim] :
        ty \in {None, Some("error"), Some("")}, lim \in Limits}
NetworkArgs ==
    {[NoArgs EXCEPT !.url = u, !.method = m, !.status_min = lo, !.status_max = hi,
                    !.resource_type = rt, !.limit = lim] :
        u \in {None, Some(<<"a">>)}, m \in {None, Some("GET")},
        lo \in {None, Some(0), Some(400)}, hi \in {None, Some(0), Some(300)},
        rt \in {None, Some("image")}, lim \in Limits}

QueryNext ==
    \/ \E args \in ConsoleArgs : GetConsoleLogs(1, args)
    \/ \E args \in NetworkArgs : GetNetworkActivity(1, args)
    \/ Return(1)

SpecQuery == QueryInit /\ [][QueryNext]_vars

\* The two log tools with a limit that is 0 or negative.
NonPositiveLimits == {Some(-n) : n \in 0..MaxLog}
LimitConsoleArgs ==
    {[NoArgs EXCEPT !.type = ty, !.limit = lim] :
        ty \in {None, Some("error")}, lim \in NonPositiveLimits}
LimitNetworkArgs ==
    {[NoArgs EXCEPT !.method = m, !.status_min = lo, !.limit = lim] :
        m \in {None, Some("GET")}, lo \in {None, Some(400)},
        lim \in NonPositiveLimits}

LimitNext ==
    \/ \E args \in LimitConsoleArgs : GetConsoleLogs(1, args)
    \/ \E args \in LimitNetworkArgs : GetNetworkActivity(1, args)
    \/ Return(1)

SpecLimit == QueryInit /\ [][LimitNext]_vars

\* ================================================================ claims
SessionTools ==
    ClickTools \cup StatelessTools \cup
    {"playwright_get_console_logs", "playwright_get_network_activity"}

\* the task that takes the step, if the step is a step of a tool call
Steps(t) == tasks'[t] # tasks[t]

\* C1: the session every handler selects, and the one _get_active_session
\* returns, is the session created last, whatever the order in which the
\* calls that created the sessions started; session ids are creation ordinals,
\* so the session created last is the one whose id is the number of sessions.
C1_ActiveIsNewest ==
    /\ [](Len(sessions) > 0 => ActiveKey(sessions) = Len(sessions))
    /\ [][\A t \in Tasks :
            (tasks'[t].sid # tasks[t].sid /\ tasks'[t].sid # 0)
                => tasks'[t].sid = Len(sessions')]_vars

\* C1 witness: with two sessions registered, a stateless tool works on the
\* second while the first is still there
C1_Witness ==
    /\ Len(sessions) = 2
    /\ \E t \in Tasks : /\ tasks[t].pc = "op"
                        /\ tasks[t].sid = 2
                        /\ tasks[t].page = PageOf(sessions, 2)

\* C2: with an empty mapping, a call of any tool that needs a session ends at
\* once with a "no session" text, never an exception, and changes neither the
\* mapping, nor a page (no driver operation, no listener), nor a log.
C2_NoSessionIsText ==
    [][\A t \in Tasks :
        (Steps(t) /\ tasks[t].pc = "idle" /\ tasks'[t].tool \in SessionTools
            /\ Len(sessions) = 0)
        => /\ tasks'[t].pc = "done"
           /\ tasks'[t].result.kind = "text"
           /\ tasks'[t].result.text \in {NoSessionText, NoSessionError}
           /\ tasks'[t].result.lines = <<>>
           /\ sessions' = sessions
           /\ pages' = pages
           /\ console_logs' = console_logs
           /\ network_events' = network_events
           /\ console_calls' = console_calls
           /\ request_calls' = request_calls
           /\ response_calls' = response_calls]_vars

\* C2 witness: a click and a console query have both been answered with the
\* "no session" text while the mapping is empty
C2_Witness ==
    /\ Len(sessions) = 0
    /\ tasks[1].pc = "done" /\ tasks[1].tool = "playwright_click"
    /\ tasks[1].result = TextResult(NoSessionText)
    /\ tasks[2].pc = "done" /\ tasks[2].tool = "playwright_get_console_logs"
    /\ tasks[2].result = TextResult(NoSessionError)

\* a page carries exactly the listeners of session sid
Instrumented(pg, sid) ==
    /\ pg.console_subs = <<sid>>
    /\ pg.request_subs = <<sid>>
    /\ pg.response_subs = <<sid>>

\* C3: a navigate call that finds the mapping empty launches a browser and,
\* when the launch succeeds, registers exactly one session, instrumented with
\* the console and network listeners, and navigates the page of that session;
\* a navigate call that finds a session creates none and navigates the page of
\* the active session; no session is created once the navigation has started.
C3_NavigateAutoCreates ==
    [][\A t \in Tasks :
        (Steps(t) /\ tasks'[t].tool = "playwright_navigate")
        => LET a == tasks[t]
               b == tasks'[t]
           IN  /\ (a.pc = "idle" /\ Len(sessions) = 0)
                    => (b.pc = "launch" /\ sessions' = sessions)
               /\ (a.pc = "idle" /\ Len(sessions) > 0)
                    => /\ b.pc = "goto"
                       /\ b.created = 0
                       /\ sessions' = sessions
                       /\ pages' = pages
                       /\ b.sid = Last(sessions).id
                       /\ b.page = Last(sessions).page
               /\ (a.pc = "launch" /\ b.pc = "goto")
                    => /\ Len(sessions') = Len(sessions) + 1
                       /\ SubSeq(sessions', 1, Len(sessions)) = sessions
                       /\ b.created = Last(sessions').id
                       /\ b.sid = b.created
                       /\ b.page = Last(sessions').page
                       /\ b.page = Len(pages')
                       /\ Len(pages') = Len(pages) + 1
                       /\ Instrumented(pages'[b.page], b.sid)
                       /\ b.sid \in DOMAIN console_logs'
                       /\ b.sid \in DOMAIN network_events'
               /\ (a.pc = "launch" /\ b.pc # "goto")
                    => (b.result.kind = "exception" /\ sessions' = sessions)
               /\ a.pc \in {"goto", "text"}
                    => (sessions' = sessions /\ pages' = pages)]_vars

\* C3 witness: a navigate call is navigating the page of the session it has
\* created itself
C3_Witness ==
    \E t \in Tasks : /\ tasks[t].tool = "playwright_navigate"
                     /\ tasks[t].pc = "goto"
                     /\ tasks[t].created # 0
                     /\ tasks[t].sid = tasks[t].created
                     /\ tasks[t].page = PageOf(sessions, tasks[t].created)

\* the last min(n, Len(seq)) elements of seq, in order
LastN(seq, n) == SubSeq(seq, Len(seq) - Min(n, Len(seq)) + 1, Len(seq))

\* a console entry satisfies the filters that were supplied (an empty string
\* counts as not supplied)
ConsoleMatches(log, args) ==
    TruthyStr(args.type) => log.type = Val(args.type)

\* a network event satisfies the filters that were supplied
NetworkMatches(e, args) ==
    /\ TruthyUrl(args.url) => Contains(Val(args.url), e.url)
    /\ TruthyStr(args.method) => e.method = Val(args.method)
    /\ ~IsNone(args.status_min) =>
           (~IsNone(e.status) /\ Val(e.status) >= Val(args.status_min))
    /\ ~IsNone(args.status_max) =>
           (~IsNone(e.status) /\ Val(e.status) <= Val(args.status_max))
    /\ TruthyStr(args.resource_type) => e.resource_type = Val(args.resource_type)

\* C4: for every history, every combination of filters and every limit
\* N >= 1 (100 for the console and 50 for the network when none is given),
\* get_console_logs and get_network_activity report exactly the last
\* min(N, number of matches) events of the whole history that satisfy all
\* supplied filters, in insertion order.
C4_FilterThenLimit ==
    \A t \in Tasks :
        (tasks[t].pc = "done" /\ tasks[t].sid # 0) =>
            LET args == tasks[t].args
                lines == tasks[t].result.lines
                CMatch(log) == ConsoleMatches(log, args)
                NMatch(e) == NetworkMatches(e, args)
                cexp == LastN(SelectSeq(console_logs[tasks[t].sid], CMatch),
                              IF IsNone(args.limit) THEN 100 ELSE Val(args.limit))
                nexp == LastN(SelectSeq(network_events[tasks[t].sid], NMatch),
                              IF IsNone(args.limit) THEN 50 ELSE Val(args.limit))
            IN  /\ tasks[t].tool = "playwright_get_console_logs"
                    => lines = [i \in 1..Len(cexp) |-> FormatConsole(cexp[i])]
                /\ tasks[t].tool = "playwright_get_network_activity"
                    => lines = [i \in 1..Len(nexp) |-> FormatNetwork(nexp[i])]

\* C4 witness: on the history (error, log) a query for the type error with
\* limit 1 reports the error entry, which is not among the last 1 entries
C4_Witness ==
    /\ Len(console_logs[1]) = 2
    /\ console_logs[1][1].type = "error"
    /\ console_logs[1][2].type = "log"
    /\ tasks[1].pc = "done"
    /\ tasks[1].tool = "playwright_get_console_logs"
    /\ tasks[1].args.type = Some("error")
    /\ tasks[1].args.limit = Some(1)
    /\ tasks[1].result.lines = <<FormatConsole(console_logs[1][1])>>

\* the entries of a list that satisfy a test, counted
Count(seq, Test(_)) == Cardinality({i \in 1..Len(seq) : Test(seq[i])})

\* console entries of message m, and network entries of request r, in all logs
EntriesOfMsg(m) ==
    LET Is(e) == e.text = m
    IN  [sid \in DOMAIN console_logs |-> Count(console_logs[sid], Is)]
EntriesOfRequest(r) ==
    LET Is(e) == e.id = r
    IN  [sid \in DOMAIN network_events |-> Count(network_events[sid], Is)]
RECURSIVE Sum(_, _)
Sum(f, S) == IF S = {} THEN 0
             ELSE LET x == CHOOSE y \in S : TRUE IN f[x] + Sum(f, S \ {x})

C6_ResponsePatchesInPlace ==
    [][\A c \in response_calls \ response_calls' :
        LET before == network_events[c.sid]
            after == network_events'[c.sid]
            resp == Val(requests[c.req].response)
            Is(e) == e.id = c.req
            Populated(e) ==
                /\ e.id = c.req
                /\ e.status = Some(resp.status)
                /\ e.status_text = Some(resp.status_text)
                /\ e.response_headers = Some([content_type |-> resp.content_type])
        IN  /\ (c.pc = "headers" /\ [c EXCEPT !.pc = "body"] \in response_calls')
                => /\ Len(after) = Len(before)
                   /\ Count(after, Is) = 1
                   /\ Populated(after[c.event])
            /\ c.pc = "body"
                => /\ Len(after) = Len(before)
                   /\ Count(after, Is) = 1
                   /\ Populated(after[c.event])]_vars

\* C6 witness: the response callback of a request has ended and the event of
\* the request holds the status
C6_Witness ==
    \E i \in 1..Len(network_events[1]) :
        /\ ~IsNone(network_events[1][i].status)
        /\ ~IsNone(network_events[1][i].response_headers)
        /\ \A c \in response_calls : c.req # network_events[1][i].id

\* both callbacks of request r have run to their end
CallbacksDone(r) ==
    /\ ~IsNone(requests[r].response)
    /\ \A c \in request_calls : c.req # r
    /\ \A c \in response_calls : c.req # r

\* C7: in every interleaving of the request callback and the response
\* callback of a request, once both have ended the list holds exactly one
\* event of the request and its response fields are populated.
C7_PairedInEveryInterleaving ==
    \A r \in 1..Len(requests) :
        CallbacksDone(r) =>
            LET Is(e) == e.id = r
                Paired(e) == /\ e.id = r
                             /\ ~IsNone(e.status)
                             /\ ~IsNone(e.status_text)
                             /\ ~IsNone(e.response_headers)
            IN  /\ Count(network_events[1], Is) = 1
                /\ Count(network_events[1], Paired) = 1

\* C8: a response callback whose request has no event in the list ends
\* without changing any list, and every entry of every list is the pending
\* event a request callback has appended for a request of the driver.
C8_NoOrphanResponse ==
    /\ [](\A sid \in DOMAIN network_events :
            \A i \in 1..Len(network_events[sid]) :
                LET e == network_events[sid][i]
                IN  /\ e.type = "request"
                    /\ e.id \in 1..Len(requests)
                    /\ e.url = requests[e.id].url
                    /\ e.method = requests[e.id].method
                    /\ e.resource_type = requests[e.id].resource_type
                    /\ \A c \in request_calls : c.req # e.id
                    /\ ~IsNone(e.status) => ~IsNone(requests[e.id].response))
    /\ [][\A c \in response_calls \ response_calls' :
            (c.pc = "scan"
                /\ \A i \in 1..Len(network_events[c.sid]) :
                       network_events[c.sid][i].id # c.req)
            => /\ network_events' = network_events
               /\ response_calls' = response_calls \ {c}]_vars

\* C8 witness: the response of a request has been dropped, because its
\* callback has ended while the request callback has not appended yet, and
\* the list holds the event of another request
C8_Witness ==
    \E r \in 1..Len(requests) :
        /\ ~IsNone(requests[r].response)
        /\ \A c \in response_calls : c.req # r
        /\ \E c \in request_calls : c.req = r
        /\ Len(network_events[1]) = 1
        /\ network_events[1][1].id # r

\* the response callback of event e has patched e and has ended
Patched(e) ==
    /\ ~IsNone(e.status)
    /\ \A c \in response_calls : c.req # e.id

\* C9 as stated: after the response callback has patched an event, the event
\* has a response_body whenever the content type is textual and the body is
\* shorter than 10240 bytes, and has none whenever the body has 10240 bytes
\* or more or the content type is not textual.
C9_BodyBySizeAndType ==
    \A i \in 1..Len(network_events[1]) :
        LET e == network_events[1][i]
            resp == Val(requests[e.id].response)
        IN  Patched(e) =>
                /\ (IsTextual(resp.content_type) /\ resp.size < BodyLimit)
                        => ~IsNone(e.response_body)
                /\ (resp.size >= BodyLimit \/ ~IsTextual(resp.content_type))
                        => IsNone(e.response_body)

\* C9: after the response callback has patched an event, the event has a
\* response_body if and only if response.body() has returned (the event has a
\* response_size), the content type is textual, the body is shorter than
\* 10240 bytes and the body decodes as UTF-8; a body of 10240 bytes or more, a
\* content type that is not textual, an undecodable body and a failed read of
\* the body all leave response_body absent.
C9_BodyBySizeTypeAndDecoding ==
    \A i \in 1..Len(network_events[1]) :
        LET e == network_events[1][i]
            resp == Val(requests[e.id].response)
        IN  Patched(e) =>
                /\ ~IsNone(e.response_body) <=>
                       /\ ~IsNone(e.response_size)
                       /\ IsTextual(resp.content_type)
                       /\ resp.size < BodyLimit
                       /\ resp.decodable
                /\ ~IsNone(e.response_size) => e.response_size = Some(resp.size)

\* C9 witness: a textual response of 10239 bytes has been patched with its
\* body
C9_Witness ==
    LET e == network_events[1][1]
        resp == Val(requests[1].response)
    IN  /\ ~IsNone(requests[1].response)
        /\ Patched(e)
        /\ resp.size = BodyLimit - 1
        /\ IsTextual(resp.content_type)
        /\ e.response_size = Some(BodyLimit - 1)
        /\ ~IsNone(e.response_body)

\* C10: when the load of the page a click or click_text has opened settles,
\* the session of the click tracks the new page; the tracked page of a session
\* changes in no other way; and every tool call that starts on a session takes
\* the page the session tracks at that moment.
C10_ClickAdoptsNewPage ==
    [][/\ \A t \in Tasks :
            (/\ tasks[t].pc = "load"
             /\ tasks'[t].pc = "done"
             /\ ~pages[tasks[t].new_page].loaded
             /\ pages'[tasks[t].new_page].loaded)
            => PageOf(sessions', tasks[t].sid) = tasks[t].new_page
       /\ \A i \in 1..Len(sessions) :
            sessions'[i].page # sessions[i].page
            => \E t \in Tasks : /\ tasks[t].pc = "load"
                                /\ tasks[t].tool \in ClickTools
                                /\ tasks[t].sid = sessions[i].id
                                /\ sessions'[i].page = tasks[t].new_page
       /\ \A t \in Tasks :
            (/\ tasks[t].pc = "idle"
             /\ tasks'[t].pc \in {"op", "action", "goto"}
             /\ Len(sessions) > 0)
            => /\ tasks'[t].sid = ActiveKey(sessions)
               /\ tasks'[t].page = PageOf(sessions, ActiveKey(sessions))]_vars

\* C10 witness: the only session, created on page 1, tracks page 2 that a
\* click has opened, and an evaluate call runs on page 2
C10_Witness ==
    /\ Len(sessions) = 1
    /\ Len(pages) >= 2
    /\ PageOf(sessions, ActiveKey(sessions)) = 2
    /\ pages[2].loaded
    /\ \E t \in Tasks : /\ tasks[t].pc = "op"
                        /\ tasks[t].tool = "playwright_evaluate"
                        /\ tasks[t].page = 2

\* C11: a click or click_text call whose action has succeeded and whose wait
\* for a new page has timed out ends with the result of the action, not with
\* an exception; no step of the call before an adoption changes the mapping,
\* so the timeout leaves the tracked page as it was; and the call does end.
C11_NoNewPageIsNotAnError ==
    /\ [][\A t \in Tasks :
            /\ (tasks[t].pc = "wait" /\ tasks[t].fut = "timeout"
                    /\ tasks'[t] # tasks[t])
                => /\ tasks'[t].pc = "done"
                   /\ tasks'[t].result = TextResult("clicked")
                   /\ sessions' = sessions
            /\ (tasks[t].pc \in {"action", "wait"} /\ tasks'[t] # tasks[t])
                => sessions' = sessions]_vars
    /\ \A t \in Tasks :
        (tasks[t].pc = "wait" /\ tasks[t].fut = "timeout") ~> (tasks[t].pc = "done")

\* C11 witness: a click has returned its result, no page has been opened since
\* the session was created, and the session tracks its first page
C11_Witness ==
    /\ \E t \in Tasks : /\ tasks[t].pc = "done"
                        /\ tasks[t].tool \in ClickTools
                        /\ tasks[t].result = TextResult("clicked")
    /\ Len(pages) = 1
    /\ PageOf(sessions, 1) = 1

\* C12: when the driver operation of a tool call fails (goto, the text
\* evaluation of navigate, a locator click or fill, evaluate, screenshot,
\* inner_html), the call ends with a text result and not with an exception,
\* and the mapping holds the same sessions as before.  (The initial
\* navigation of new_session is left out: its failure is meant to propagate.)
C12_DriverFailuresAreText ==
    [][\A t \in Tasks :
        (/\ tasks[t].pc \in {"goto", "text", "action", "op"}
         /\ tasks[t].tool # "playwright_new_session"
         /\ tasks'[t].pc = "done")
        => /\ tasks'[t].result.kind # "exception"
           /\ Keys(sessions') = Keys(sessions)]_vars

\* C13: no failure inside a console, request or response callback leaves the
\* callback: no callback ends with an exception.
C13_CallbackFailuresSwallowed ==
    \A c \in console_calls : c.pc # "raised"

\* C14: a new_session call registers its session and attaches the console
\* and network listeners to its page in the step in which the page has been
\* opened, and starts a navigation only after that and only when a URL was
\* given; while it navigates, the session is registered and instrumented; when
\* the navigation fails, the call ends with the exception of goto, the mapping
\* is left as it is with the session in it, and the session is the active one
\* (unless a concurrent call has registered a later session meanwhile).
C14_RegisterAttachThenNavigate ==
    /\ [](\A t \in Tasks :
            (tasks[t].tool = "playwright_new_session" /\ tasks[t].pc = "goto")
            => /\ HasKey(sessions, tasks[t].created)
               /\ Instrumented(pages[tasks[t].page], tasks[t].created)
               /\ tasks[t].created \in DOMAIN console_logs
               /\ tasks[t].created \in DOMAIN network_events)
    /\ [][\A t \in Tasks :
            (Steps(t) /\ tasks'[t].tool = "playwright_new_session")
            => LET a == tasks[t]
                   b == tasks'[t]
               IN  /\ a.pc = "idle" => (b.pc = "launch" /\ sessions' = sessions)
                   /\ (a.pc = "launch" /\ b.result.kind # "exception")
                        => /\ Len(sessions') = Len(sessions) + 1
                           /\ SubSeq(sessions', 1, Len(sessions)) = sessions
                           /\ Instrumented(pages'[Last(sessions').page],
                                           Last(sessions').id)
                           /\ b.pc = "goto" <=> TruthyUrl(a.args.url)
                           /\ b.pc # "goto" => b.result = TextResult("created")
                   /\ (a.pc = "goto" /\ b.result.kind = "exception")
                        => /\ b.result = Raised("goto")
                           /\ sessions' = sessions
                           /\ HasKey(sessions', a.created)
                           /\ a.created = Len(sessions)
                                => ActiveKey(sessions') = a.created]_vars

\* C14 witness: the navigation of a new_session call has failed, and the
\* session it created is registered, instrumented and active
C14_Witness ==
    /\ \E t \in Tasks : /\ tasks[t].pc = "done"
                        /\ tasks[t].tool = "playwright_new_session"
                        /\ tasks[t].result = Raised("goto")
    /\ Len(sessions) = 1
    /\ ActiveKey(sessions) = 1
    /\ Instrumented(pages[PageOf(sessions, 1)], 1)

\* C15: for every history, every combination of filters and every limit
\* N >= 1, get_console_logs returns the text "No console logs available." and
\* get_network_activity the text "No network activity recorded." if and only
\* if no entry of the session's log satisfies all supplied filters, whether
\* the log is empty or not; otherwise the result lists at least one entry.
C15_PlaceholderIffNothingMatches ==
    \A t \in Tasks :
        (tasks[t].pc = "done" /\ tasks[t].sid # 0) =>
            LET args == tasks[t].args
                res == tasks[t].result
                sid == tasks[t].sid
                NoConsoleMatch ==
                    \A i \in 1..Len(console_logs[sid]) :
                        ~ConsoleMatches(console_logs[sid][i], args)
                NoNetworkMatch ==
                    \A i \in 1..Len(network_events[sid]) :
                        ~NetworkMatches(network_events[sid][i], args)
            IN  /\ res.kind = "text"
                /\ tasks[t].tool = "playwright_get_console_logs"
                    => /\ res = TextResult("No console logs available.")
                            <=> NoConsoleMatch
                       /\ res.lines = <<>> <=> NoConsoleMatch
                /\ tasks[t].tool = "playwright_get_network_activity"
                    => /\ res = TextResult("No network activity recorded.")
                            <=> NoNetworkMatch
                       /\ res.lines = <<>> <=> NoNetworkMatch

\* C15 witness: the only request of the session has status 200, and
\* get_network_activity with status_min = 400 returns the placeholder text
C15_Witness ==
    /\ Len(network_events[1]) = 1
    /\ network_events[1][1].status = Some(200)
    /\ tasks[1].pc = "done"
    /\ tasks[1].tool = "playwright_get_network_activity"
    /\ tasks[1].args = [NoArgs EXCEPT !.status_min = Some(400)]
    /\ tasks[1].result = TextResult("No network activity recorded.")

\* C16: in every log the entries are in the order in which the driver has
\* delivered their events to the callbacks (messages and requests are numbered
\* in the order of their delivery): of two entries, the one of the event
\* delivered first comes first.
C16_DeliveryOrder ==
    /\ \A sid \in DOMAIN console_logs :
        \A i, j \in 1..Len(console_logs[sid]) :
            i < j => console_logs[sid][i].text < console_logs[sid][j].text
    /\ \A sid \in DOMAIN network_events :
        \A i, j \in 1..Len(network_events[sid]) :
            i < j => network_events[sid][i].id < network_events[sid][j].id

\* the two tools that report a log
LogTools == {"playwright_get_console_logs", "playwright_get_network_activity"}

\* C17: for every history, filter and limit, a get_console_logs or
\* get_network_activity call leaves the console log and the network list of
\* every session exactly as they were: the same entries with the same fields
\* in the same order.
C17_QueryLeavesLogs ==
    [][\A t \in Tasks :
        (tasks[t].pc = "idle" /\ tasks'[t].pc = "done" /\ tasks'[t].tool \in LogTools)
        => /\ console_logs' = console_logs
           /\ network_events' = network_events
           /\ requests' = requests]_vars

\* C17 witness: get_network_activity with limit 1 has reported one of the two
\* stored events, and both are still stored
C17_Witness ==
    /\ tasks[1].pc = "done"
    /\ tasks[1].tool = "playwright_get_network_activity"
    /\ tasks[1].args.limit = Some(1)
    /\ Len(tasks[1].result.lines) = 1
    /\ Len(network_events[1]) = 2
    /\ \A i \in 1..2 : network_events[1][i] = StoredEvent(i, requests[i])

\* C18: when get_console_logs reads the log after its wait, every console
\* message the driver has delivered during the wait is in the result (the
\* call has no filter and the default limit).
C18_WaitCollectsMessages ==
    [][\A t \in Tasks :
        (tasks[t].pc = "sleep" /\ tasks'[t].pc = "done")
        => \A c \in console_calls :
              c.pc = "emitted"
              => \E i \in 1..Len(tasks'[t].result.lines) :
                    tasks'[t].result.lines[i].text = c.msg]_vars

\* C19: with a limit of 0 or a negative limit, get_console_logs and
\* get_network_activity return a text result, and what they report is a
\* suffix of the entries of the session's log that satisfy the supplied
\* filters, in insertion order (all of them for 0, all but the first k for -k).
C19_NonPositiveLimit ==
    \A t \in Tasks :
        (tasks[t].pc = "done" /\ tasks[t].sid # 0) =>
            LET args == tasks[t].args
                lines == tasks[t].result.lines
                CMatch(log) == ConsoleMatches(log, args)
                NMatch(e) == NetworkMatches(e, args)
                cm == SelectSeq(console_logs[tasks[t].sid], CMatch)
                nm == SelectSeq(network_events[tasks[t].sid], NMatch)
            IN  /\ tasks[t].result.kind = "text"
                /\ tasks[t].tool = "playwright_get_console_logs"
                    => \E k \in 0..Len(cm) :
                          lines = [i \in 1..(Len(cm) - k) |-> FormatConsole(cm[k + i])]
                /\ tasks[t].tool = "playwright_get_network_activity"
                    => \E k \in 0..Len(nm) :
                          lines = [i \in 1..(Len(nm) - k) |-> FormatNetwork(nm[k + i])]

\* C19 witness: get_console_logs with limit -1 on a log of two entries has
\* returned the second entry
C19_Witness ==
    /\ Len(console_logs[1]) = 2
    /\ tasks[1].pc = "done"
    /\ tasks[1].tool = "playwright_get_console_logs"
    /\ tasks[1].args.limit = Some(-1)
    /\ IsNone(tasks[1].args.type)
    /\ tasks[1].result.lines = <<FormatConsole(console_logs[1][2])>>

\* the fields of a network entry that the response callback does not write
RequestFields(e) ==
    [id |-> e.id, type |-> e.type, url |-> e.url, method |-> e.method,
     headers |-> e.headers, post_data |-> e.post_data,
     resource_type |-> e.resource_type, timestamp |-> e.timestamp]

\* C20: in every step (a callback, a query, an attach, an adoption) every
\* bucket stays, every console log keeps its entries unchanged as a prefix of
\* what it is afterwards, every network list keeps its length or grows, and
\* each of its entries keeps its place and every field but the response
\* fields.
C20_AppendOnly ==
    [][/\ \A sid \in DOMAIN console_logs :
            /\ sid \in DOMAIN console_logs'
            /\ Len(console_logs'[sid]) >= Len(console_logs[sid])
            /\ SubSeq(console_logs'[sid], 1, Len(console_logs[sid])) = console_logs[sid]
       /\ \A sid \in DOMAIN network_events :
            /\ sid \in DOMAIN network_events'
            /\ Len(network_events'[sid]) >= Len(network_events[sid])
            /\ \A i \in 1..Len(network_events[sid]) :
                  RequestFields(network_events'[sid][i])
                      = RequestFields(network_events[sid][i])]_vars

\* C20 witness: the session has adopted a second page, a log tool has
\* attached the listeners to it, and the list that held the event of a
\* request of the first page now also holds a patched event of the second
C20_Witness ==
    /\ PageOf(sessions, 1) = 2
    /\ pages[2].network_listener_added
    /\ Len(network_events[1]) = 2
    /\ requests[network_events[1][1].id].page = 1
    /\ requests[network_events[1][2].id].page = 2
    /\ ~IsNone(network_events[1][2].status)

\* C21: the URL a new_session or navigate call passes to page.goto is the
\* URL argument itself when the argument starts with "http://" or "https://",
\* and "https://" followed by the argument otherwise; it always starts with
\* one of the two, and normalizing it again gives the same URL.
C21_SchemeNormalized ==
    \A t \in Tasks :
        tasks[t].pc = "goto" =>
            LET arg == Val(tasks[t].args.url)
                url == tasks[t].url
                HasScheme(u) ==
                    \/ (Len(u) >= 2 /\ u[1] = "http" /\ u[2] = "://")
                    \/ (Len(u) >= 3 /\ u[1] = "http" /\ u[2] = "s" /\ u[3] = "://")
            IN  /\ HasScheme(arg) => url = arg
                /\ ~HasScheme(arg) => url = <<"http", "s", "://">> \o arg
                /\ HasScheme(url)
                /\ Normalize(url) = url

\* C21 witness: navigate with the URL "example.com" is at goto with the URL
\* "https://example.com"
C21_Witness ==
    /\ tasks[1].pc = "goto"
    /\ tasks[1].tool = "playwright_navigate"
    /\ tasks[1].args.url = Some(<<"example.com">>)
    /\ tasks[1].url = <<"http", "s", "://", "example.com">>

\* C22: the page text snippet in the text a navigate call returns has at most
\* 200 characters, also when the text of the page is longer than that.
C22_SnippetTruncated ==
    \A t \in Tasks :
        (/\ tasks[t].pc = "done"
         /\ tasks[t].tool = "playwright_navigate"
         /\ tasks[t].result.kind = "text")
        => Len(tasks[t].result.lines) <= 200

\* C23: when status_min or status_max is given to get_network_activity, no
\* event without a status (a pending one) is reported, whatever the bounds
\* are; when neither is given, pending events are reported like the others; a
\* bound of 0 is a bound: the reported events are the last N of those that
\* pass the other filters, have a status when a bound is given, and lie within
\* every bound given.
C23_StatusBounds ==
    \A t \in Tasks :
        (/\ tasks[t].pc = "done"
         /\ tasks[t].tool = "playwright_get_network_activity"
         /\ tasks[t].sid # 0) =>
            LET args == tasks[t].args
                lines == tasks[t].result.lines
                bounded == args.status_min # None \/ args.status_max # None
                Other(e) ==
                    /\ TruthyUrl(args.url) => Contains(Val(args.url), e.url)
                    /\ TruthyStr(args.method) => e.method = Val(args.method)
                    /\ TruthyStr(args.resource_type)
                           => e.resource_type = Val(args.resource_type)
                InBounds(e) ==
                    /\ e.status # None
                    /\ args.status_min # None => Val(e.status) >= Val(args.status_min)
                    /\ args.status_max # None => Val(e.status) <= Val(args.status_max)
                Expected(e) == Other(e) /\ (bounded => InBounds(e))
                exp == LastN(SelectSeq(network_events[tasks[t].sid], Expected),
                             IF args.limit = None THEN 50 ELSE Val(args.limit))
            IN  /\ lines = [i \in 1..Len(exp) |-> FormatNetwork(exp[i])]
                /\ bounded => \A i \in 1..Len(lines) : lines[i].status # None
                /\ (~bounded /\ args.limit = None) =>
                       \A i \in 1..Len(network_events[tasks[t].sid]) :
                           LET e == network_events[tasks[t].sid][i]
                           IN  (e.status = None /\ Other(e)
                                /\ i > Len(network_events[tasks[t].sid]) - 50)
                               => \E j \in 1..Len(lines) : lines[j] = FormatNetwork(e)

\* C23 witness: a history of a pending and an answered request, queried with
\* status_min 0 and nothing else: only the answered one is reported
C23_Witness ==
    /\ Len(network_events[1]) = 2
    /\ network_events[1][1].status = None
    /\ network_events[1][2].status = Some(200)
    /\ tasks[1].pc = "done"
    /\ tasks[1].tool = "playwright_get_network_activity"
    /\ tasks[1].args = [NoArgs EXCEPT !.status_min = Some(0)]
    /\ tasks[1].result.lines = <<FormatNetwork(network_events[1][2])>>

\* C24: a step of a click or click_text call changes the mapping at most in
\* the tracked page of the session that was active when the call was armed,
\* which becomes the new page; the tracked pages of the other sessions stay
\* as they are, also when a session has been created while the call was
\* suspended, and no session is added or removed.
C24_AdoptionTargetsArmedSession ==
    [][\A t \in Tasks :
          (tasks[t].tool \in ClickTools /\ tasks'[t] # tasks[t]) =>
              /\ Keys(sessions') = Keys(sessions)
              /\ \A i \in 1..Len(sessions) :
                     IF sessions[i].id = tasks[t].sid
                     THEN /\ sessions'[i].browser = sessions[i].browser
                          /\ sessions'[i].page \in {sessions[i].page, tasks[t].new_page}
                     ELSE sessions'[i] = sessions[i]]_vars

\* C24 witness: a click armed under session 1 has adopted page 3, which
\* opened in the context of session 1 after session 2 and its page 2 had been
\* created; session 2 still tracks page 2
C24_Witness ==
    /\ Keys(sessions) = <<1, 2>>
    /\ Len(pages) = 3
    /\ pages[3].context = pages[1].context
    /\ PageOf(sessions, 1) = 3
    /\ PageOf(sessions, 2) = 2
    /\ \E t \in Tasks : tasks[t].pc = "done" /\ tasks[t].tool \in ClickTools

\* C25: at all times every network event that has a response_body has a
\* response_size below 10240, every event that has a response_size has a
\* status, a status_text and response_headers, and no step changes the id,
\* url, method, headers, post_data, resource_type or timestamp of an event
\* that is in a list.
C25_EventShape ==
    /\ [](\A sid \in DOMAIN network_events :
             \A i \in 1..Len(network_events[sid]) :
                 LET e == network_events[sid][i]
                 IN  /\ e.response_body # None =>
                            /\ e.response_size # None
                            /\ Val(e.response_size) < 10240
                     /\ e.response_size # None =>
                            /\ e.status # None
                            /\ e.status_text # None
                            /\ e.response_headers # None)
    /\ [][\A sid \in DOMAIN network_events :
             \A i \in 1..Len(network_events[sid]) :
                 LET e == network_events[sid][i]
                     f == network_events'[sid][i]
                 IN  /\ f.id = e.id
                     /\ f.url = e.url
                     /\ f.method = e.method
                     /\ f.headers = e.headers
                     /\ f.post_data = e.post_data
                     /\ f.resource_type = e.resource_type
                     /\ f.timestamp = e.timestamp]_vars

\* C25 witness: the event of the request has been patched with a status, a
\* size and a body, and its request fields are those it was appended with
C25_Witness ==
    LET e == network_events[1][1]
    IN  /\ e.response_body # None
        /\ e.response_size # None
        /\ e.status = Some(404)
        /\ RequestFields(e) = RequestFields(PendingEvent(1, requests[1]))

\* the session ids held by the listeners of a page
Subs(pg) ==
    {pg.console_subs[i] : i \in 1..Len(pg.console_subs)}
    \cup {pg.request_subs[i] : i \in 1..Len(pg.request_subs)}
    \cup {pg.response_subs[i] : i \in 1..Len(pg.response_subs)}

\* C26: with several sessions, no page ever carries listeners of two session
\* ids, the listeners of a page hold the id of the session whose browser the
\* page belongs to, and a step that changes the console log or the network
\* list of a session is a callback of a page instrumented under that session
\* id and changes the log and the list of no other session.
C26_CallbacksStayInTheirSession ==
    /\ [](\A p \in 1..Len(pages) :
             /\ Cardinality(Subs(pages[p])) <= 1
             /\ \A sid \in Subs(pages[p]) :
                    /\ HasKey(sessions, sid)
                    /\ sessions[Get(sessions, sid)].browser = pages[p].context)
    /\ [][\A sid \in DOMAIN console_logs :
             console_logs'[sid] # console_logs[sid] =>
                 /\ \E c \in console_calls \ console_calls' :
                        Subs(pages[c.page]) = {sid}
                 /\ \A other \in DOMAIN console_logs \ {sid} :
                        console_logs'[other] = console_logs[other]
                 /\ network_events' = network_events]_vars
    /\ [][\A sid \in DOMAIN network_events :
             network_events'[sid] # network_events[sid] =>
                 /\ \E c \in (request_calls \ request_calls')
                                 \cup (response_calls \ response_calls') :
                        Subs(pages[requests[c.req].page]) = {sid}
                 /\ \A other \in DOMAIN network_events \ {sid} :
                        network_events'[other] = network_events[other]
                 /\ console_logs' = console_logs]_vars

\* C26 witness: two sessions; a console message of the page of session 1 and
\* a request of the page of session 2 have been recorded, each in the log of
\* its session and not in the other
C26_Witness ==
    /\ Keys(sessions) = <<1, 2>>
    /\ Len(console_logs[1]) = 1
    /\ console_logs[1][1].location.url = PageOf(sessions, 1)
    /\ console_logs[2] = <<>>
    /\ network_events[1] = <<>>
    /\ Len(network_events[2]) = 1
    /\ requests[network_events[2][1].id].page = PageOf(sessions, 2)

\* C27: whenever a tool call has completed and no call is under way, the page
\* each registered session tracks carries the console listener and the
\* request and response listeners of that session, also right after a click
\* or click_text has adopted a new page.
C27_TrackedPagesInstrumented ==
    (/\ \A t \in Tasks : tasks[t].pc \in {"idle", "done"}
     /\ \E t \in Tasks : tasks[t].pc = "done")
    => \A i \in 1..Len(sessions) :
           LET pg == pages[sessions[i].page]
           IN  /\ pg.console_listener_added
               /\ pg.network_listener_added
               /\ pg.console_subs = <<sessions[i].id>>
               /\ pg.request_subs = <<sessions[i].id>>
               /\ pg.response_subs = <<sessions[i].id>>

====
